---- MODULE Spec2Model ----
(***************************************************************************)
(* A model of rpick's selection engine (src/src/lib.rs): Engine::pick and  *)
(* the six models it dispatches to (even, gaussian, inventory, lottery,    *)
(* lru, weighted), together with the calls the engine makes on its UI.     *)
(*                                                                         *)
(* Conventions.                                                            *)
(*  - Rust vectors are 0-based, TLA+ sequences 1-based: every position in  *)
(*    the model is the Rust index plus one.                                *)
(*  - u64 weights and tickets are natural numbers from 0..MaxWeight and    *)
(*    0..MaxTickets, far below 2^64: u64 overflow is outside these bounds. *)
(*  - The random source is a nondeterministic choice of the value it       *)
(*    yields: a uniform integer in [0, total) for choose_weighted, and the *)
(*    truncated absolute value of a normal sample for the gaussian model.  *)
(*  - The UI is the environment: call_display_table and prompt_choice      *)
(*    answer with any boolean.  ui records the UI calls of the current     *)
(*    iteration of the consent loop, prompts and infos count the           *)
(*    prompt_choice and info calls of the current pick.                    *)
(***************************************************************************)
EXTENDS Integers, Sequences, FiniteSets

VARIABLES
    config,      \* BTreeMap<String, ConfigCategory> handed to Engine::pick
    config0,     \* the value of config when the pick in progress was called
    pc,          \* "idle", "draw", "consent", "returned", "panicked"
    category,    \* the category name given to the pick in progress
    candidates,  \* the working pool (weighted models) or working copy (gaussian)
    index,       \* the drawn original index / gaussian index / lru scan position
    choice,      \* the name drawn in this iteration, offered to prompt_choice
    ui,          \* UI calls made in the current iteration of the consent loop
    result,      \* what pick returned: None, Ok(name) or Err(message)
    prompts,     \* number of prompt_choice calls made by the pick in progress
    infos        \* number of info calls made by the pick in progress

vars == <<config, config0, pc, category, candidates, index, choice, ui,
          result, prompts, infos>>

(***************************************************************************)
(* Bounds of the model.                                                    *)
(***************************************************************************)
MaxLen == 3
MaxWeight == 2
MaxTickets == 2
MaxPrompts == 4
MaxInfos == 2

(***************************************************************************)
(* Program constants.                                                      *)
(***************************************************************************)
default_stddev_scaling_factor == 3
default_weight == 1

\* The message of express_disapproval, U+1F928 (face with raised eyebrow).
DISAPPROVAL == "U+1F928"

None == [kind |-> "None"]
Ok(name) == [kind |-> "Ok", value |-> name]
ValueError(message) == [kind |-> "Err", message |-> message]

(***************************************************************************)
(* Sequence helpers standing for Vec / iterator methods.                   *)
(***************************************************************************)
\* Vec::remove(i): the vector without the element at position i.
RemoveAt(s, i) == SubSeq(s, 1, i - 1) \o SubSeq(s, i + 1, Len(s))

\* iter().position(|x| x == value) on a vector of names: the first match.
\* The code unwraps it; it is only used where a match exists.
position(s, value) ==
    CHOOSE i \in 1..Len(s) : s[i] = value /\ \A j \in 1..(i - 1) : s[j] # value

\* Variant of position_by_name: the last entry carrying that name.
position_by_name_last(cands, name) ==
    CHOOSE i \in 1..Len(cands) :
        cands[i].name = name /\ \A j \in (i + 1)..Len(cands) : cands[j].name # name

\* iter().position(|x| (x.0).1 == choice) on the pool: the first entry
\* carrying that name.
position_by_name(cands, name) ==
    CHOOSE i \in 1..Len(cands) :
        cands[i].name = name /\ \A j \in 1..(i - 1) : cands[j].name # name

RECURSIVE SumWeights(_)
SumWeights(cands) ==
    IF cands = <<>> THEN 0
    ELSE cands[1].weight + SumWeights(Tail(cands))

\* iter().rev()
RECURSIVE Reverse(_)
Reverse(s) == IF s = <<>> THEN <<>> ELSE Append(Reverse(Tail(s)), Head(s))

(***************************************************************************)
(* The category model (ConfigCategory and its choice structs).             *)
(***************************************************************************)
Names == <<"this", "that", "the other", "another", "one more">>

\* Lists of names of length n, up to renaming: a new name is always the
\* first unused one of Names.  The engine only compares names for equality.
RECURSIVE NameLists(_)
NameLists(n) ==
    IF n = 0 THEN {<<>>}
    ELSE UNION { { Append(s, Names[k]) :
                     k \in 1..(IF Cardinality({s[i] : i \in DOMAIN s}) < Len(Names)
                               THEN Cardinality({s[i] : i \in DOMAIN s}) + 1
                               ELSE Len(Names)) } :
                 s \in NameLists(n - 1) }

AllNameLists == UNION { NameLists(n) : n \in 0..MaxLen }

InventoryChoices ==
    UNION { { [i \in 1..Len(ns) |-> [name |-> ns[i], tickets |-> t[i]]] :
                t \in [1..Len(ns) -> 0..MaxTickets] } : ns \in AllNameLists }

\* The weights of a lottery list: the default weight everywhere, or the
\* values 0..MaxWeight in turn from any starting value (pick_lottery adds
\* each entry's weight to that entry alone).
LotteryWeights(n) ==
    { [i \in 1..n |-> default_weight] }
    \cup { [i \in 1..n |-> (k + i) % (MaxWeight + 1)] : k \in 0..MaxWeight }

LotteryChoices ==
    UNION { { [i \in 1..Len(ns) |->
                 [name |-> ns[i], tickets |-> t[i], weight |-> w[i]]] :
                t \in [1..Len(ns) -> 0..MaxTickets],
                w \in LotteryWeights(Len(ns)) } : ns \in AllNameLists }

WeightedChoices ==
    UNION { { [i \in 1..Len(ns) |-> [name |-> ns[i], weight |-> w[i]]] :
                w \in [1..Len(ns) -> 0..MaxWeight] } : ns \in AllNameLists }

ConfigCategory ==
    { [model |-> "even", choices |-> c] : c \in AllNameLists }
    \cup { [model |-> "gaussian",
            stddev_scaling_factor |-> default_stddev_scaling_factor,
            choices |-> c] : c \in AllNameLists }
    \cup { [model |-> "inventory", choices |-> c] : c \in InventoryChoices }
    \cup { [model |-> "lru", choices |-> c] : c \in AllNameLists }
    \cup { [model |-> "lottery", choices |-> c] : c \in LotteryChoices }
    \cup { [model |-> "weighted", choices |-> c] : c \in WeightedChoices }

WeightedModels == {"even", "inventory", "lottery", "weighted"}

\* A second category of the mapping, which no pick of the model names.
OtherCategory ==
    [model |-> "lottery",
     choices |-> << [name |-> "this", tickets |-> 1, weight |-> 1],
                    [name |-> "that", tickets |-> 0, weight |-> 2] >>]

\* The category names a caller may ask for: one in the mapping, one not.
Requests == {"things", "does not exist"}

(***************************************************************************)
(* The UI trait: the four calls the engine makes, as records of the call   *)
(* and of what it returned.                                                *)
(***************************************************************************)
CallDisplayTable(returned) ==
    [call |-> "call_display_table", returned |-> returned]
DisplayTable(table) == [call |-> "display_table", table |-> table]
Info(message) == [call |-> "info", message |-> message]
PromptChoice(name, returned) ==
    [call |-> "prompt_choice", choice |-> name, returned |-> returned]

\* Express disapproval to the user.
express_disapproval == Info(DISAPPROVAL)

\* Prompt the user for consent for the given choice.
get_consent(name, answer) == PromptChoice(name, answer)

\* Variant of skipped_iteration: the iteration expresses disapproval.
skipped_iteration_disapproves == <<express_disapproval>>

\* if let Some(value) = candidates.get(index) { .. }, with no else: on None
\* the body of the loop is skipped and the iteration makes no UI call.
skipped_iteration == <<>>

(***************************************************************************)
(* The tables handed to display_table.                                     *)
(***************************************************************************)
\* Variant of sort_by_key: the pool order is kept.
sort_by_key_unsorted(cands) == cands

\* sort_by_key(|c| c.1): a stable sort, ascending by weight.
RECURSIVE sort_by_key(_)
sort_by_key(cands) ==
    IF cands = <<>> THEN <<>>
    ELSE LET sorted == sort_by_key(SubSeq(cands, 1, Len(cands) - 1))
             x == cands[Len(cands)]
             k == Cardinality({i \in 1..Len(sorted) : sorted[i].weight <= x.weight})
         IN  SubSeq(sorted, 1, k) \o <<x>> \o SubSeq(sorted, k + 1, Len(sorted))

\* Variant of display_weighted_chance_table: the total is the number of rows.
display_weighted_chance_table_count(idx, cands) ==
    LET sorted == sort_by_key(cands)
        total == Len(sorted)
    IN  [header |-> <<"Name", "Weight", "Chance">>,
         rows |-> [i \in 1..Len(sorted) |->
                     [name |-> sorted[i].name,
                      weight |-> sorted[i].weight,
                      chance |-> [num |-> sorted[i].weight * 100, den |-> total],
                      chosen |-> (sorted[i].index = idx)]],
         footer |-> <<"Total", total, 100>>]

\* A chance in percent, weight / total * 100, kept as a fraction.
display_weighted_chance_table(idx, cands) ==
    LET sorted == sort_by_key(cands)
        total == SumWeights(sorted)
    IN  [header |-> <<"Name", "Weight", "Chance">>,
         rows |-> [i \in 1..Len(sorted) |->
                     [name |-> sorted[i].name,
                      weight |-> sorted[i].weight,
                      chance |-> [num |-> sorted[i].weight * 100, den |-> total],
                      chosen |-> (sorted[i].index = idx)]],
         footer |-> <<"Total", total, 100>>]

\* The chance cells are differences of the normal CDF (floating point); the
\* model keeps the names, their order and the chosen flag of each row.
display_gaussian_chance_table(idx, cands) ==
    [header |-> <<"Name", "Chance">>,
     rows |-> [i \in 1..Len(cands) |-> [name |-> cands[i], chosen |-> (i = idx)]],
     footer |-> <<"Total">>]

\* Variant of display_lru_table: the candidates already rejected are kept.
display_lru_table_unfiltered(idx, choices) ==
    LET rev == Reverse(choices)
    IN  [header |-> <<"Name">>,
         rows |-> [i \in 1..Len(rev) |->
                     [name |-> rev[i], chosen |-> (i = Len(rev))]],
         footer |-> <<>>]

\* filter(|(i, _)| i >= &index), then rev(): chosen is the last row.
display_lru_table(idx, choices) ==
    LET kept == SubSeq(choices, idx, Len(choices))
        rev == Reverse(kept)
    IN  [header |-> <<"Name">>,
         rows |-> [i \in 1..Len(rev) |->
                     [name |-> rev[i], chosen |-> (i = Len(kept))]],
         footer |-> <<>>]

\* Variant of show_table: the table is displayed whatever the UI answers.
show_table_always(show, table) ==
    <<CallDisplayTable(show), DisplayTable(table)>>

\* if self.ui.call_display_table() { self.display_..._table(...) }
show_table(show, table) ==
    IF show THEN <<CallDisplayTable(TRUE), DisplayTable(table)>>
    ELSE <<CallDisplayTable(FALSE)>>

(***************************************************************************)
(* The candidate pools of the weighted models.  A pool entry is            *)
(* ((original index, name), weight).                                       *)
(***************************************************************************)
\* Variant of even_candidates: the position is taken as the weight.
even_candidates_by_position(choices) ==
    [i \in 1..Len(choices) |-> [index |-> i, name |-> choices[i], weight |-> i - 1]]

\* pick_even: every choice with the weight 1.
even_candidates(choices) ==
    [i \in 1..Len(choices) |-> [index |-> i, name |-> choices[i], weight |-> 1]]

weighted_candidates(choices) ==
    [i \in 1..Len(choices) |->
        [index |-> i, name |-> choices[i].name, weight |-> choices[i].weight]]

\* Variant of ticket_candidates: an entry needs more than one ticket.
ticket_candidates_more_than_one(choices) ==
    LET all == [i \in 1..Len(choices) |->
                  [index |-> i, name |-> choices[i].name, weight |-> choices[i].tickets]]
        has_tickets(c) == c.weight > 1
    IN  SelectSeq(all, has_tickets)

\* Variant of ticket_candidates: entries without tickets stay in the pool.
ticket_candidates_unfiltered(choices) ==
    [i \in 1..Len(choices) |->
        [index |-> i, name |-> choices[i].name, weight |-> choices[i].tickets]]

ticket_candidates(choices) ==
    LET all == [i \in 1..Len(choices) |->
                  [index |-> i, name |-> choices[i].name,
                   weight |-> choices[i].tickets]]
        has_tickets(c) == c.weight > 0
    IN  SelectSeq(all, has_tickets)

initialize_candidates(cat) ==
    CASE cat.model = "even" -> even_candidates(cat.choices)
      [] cat.model = "weighted" -> weighted_candidates(cat.choices)
      [] cat.model = "inventory" -> ticket_candidates(cat.choices)
      [] cat.model = "lottery" -> ticket_candidates(cat.choices)

\* SliceRandom::choose_weighted: Err(NoItem) on an empty slice and
\* Err(AllWeightsZero) when the weights sum to zero; the code unwraps it.
choose_weighted_fails(cands) == cands = <<>> \/ SumWeights(cands) = 0

\* Otherwise, for the value r the random source yields in [0, total), the
\* first entry whose cumulative weight exceeds r.
choose_weighted(cands, r) ==
    CHOOSE i \in 1..Len(cands) :
        /\ SumWeights(SubSeq(cands, 1, i)) > r
        /\ \A j \in 1..(i - 1) : SumWeights(SubSeq(cands, 1, j)) <= r

\* normal.sample(..).abs() as usize, on a working copy of n names: with
\* stddev = n / stddev_scaling_factor > 0 any index can come out, n + 1
\* standing for every index out of range; with n = 0 the stddev is 0 and the
\* sample is 0, the first (and out of range) position.
gaussian_index(n) == IF n = 0 THEN {1} ELSE 1..(n + 1)

(***************************************************************************)
(* What each model does to its choices when the user accepts, and the name *)
(* it returns.                                                             *)
(***************************************************************************)
\* Variant of inventory_accept: the ticket is taken at the position the
\* winner has in the pool, not in the choices.
inventory_accept_pool_position(choices, idx) ==
    LET p == idx - Cardinality({j \in 1..(idx - 1) : choices[j].tickets = 0})
    IN  [choices EXCEPT ![p].tickets = @ - 1]

\* Variant of inventory_accept: two tickets are taken.
inventory_accept_two(choices, idx) ==
    [choices EXCEPT ![idx].tickets = @ - 2]

\* choices[index].tickets -= 1 (index comes from the pool, whose entries
\* have tickets > 0, so the subtraction does not go below 0)
inventory_accept(choices, idx) ==
    [choices EXCEPT ![idx].tickets = @ - 1]

\* Variant of lottery_accept: the winner is set to 0 before the tickets are
\* added, and so gains its weight like the others.
lottery_accept_reset_first(choices, idx) ==
    [i \in 1..Len(choices) |->
        IF i = idx THEN [choices[i] EXCEPT !.tickets = choices[i].weight]
        ELSE [choices[i] EXCEPT !.tickets = @ + choices[i].weight]]

\* Variant of lottery_accept: only the entries of the pool gain tickets.
lottery_accept_pool_only(choices, idx) ==
    [i \in 1..Len(choices) |->
        IF i = idx THEN [choices[i] EXCEPT !.tickets = 0]
        ELSE IF choices[i].tickets > 0
        THEN [choices[i] EXCEPT !.tickets = @ + choices[i].weight]
        ELSE choices[i]]

\* for choice in choices.iter_mut() { choice.tickets += choice.weight }
\* choices[index].tickets = 0
lottery_accept(choices, idx) ==
    [i \in 1..Len(choices) |->
        IF i = idx THEN [choices[i] EXCEPT !.tickets = 0]
        ELSE [choices[i] EXCEPT !.tickets = @ + choices[i].weight]]

\* Variant of move_to_end: the choice is pushed and not removed.
move_to_end_copy(choices, idx) == Append(choices, choices[idx])

\* let chosen = choices.remove(index); choices.push(chosen.clone())
move_to_end(choices, idx) == Append(RemoveAt(choices, idx), choices[idx])

\* Variant of lru_accept: the accepted choice is moved to the front.
lru_accept_to_front(choices, idx) == <<choices[idx]>> \o RemoveAt(choices, idx)

\* Variant of lru_accept: the accepted choice changes places with the last.
lru_accept_swap(choices, idx) ==
    [choices EXCEPT ![idx] = choices[Len(choices)], ![Len(choices)] = choices[idx]]

\* pick_lru moves the accepted choice, at the position of the scan.
lru_accept(choices, idx) == move_to_end(choices, idx)

\* Variant of accepted_index: the position in the working copy is kept.
accepted_index_drawn(choices, drawn, value) == drawn

\* pick_gaussian, on acceptance of value, drawn at position drawn of the
\* working copy: index = choices.iter().position(|x| x == value).unwrap()
accepted_index(choices, drawn, value) == position(choices, value)

\* ... and after the loop the choice at that index is moved and returned.
gaussian_accept(choices, idx) == move_to_end(choices, idx)

\* Variant of has_other_candidates: the last candidate is removed as well.
has_other_candidates_any(cands) == Len(cands) > 0

\* else if candidates.len() > 1: a rejected candidate is removed while
\* others remain, else the pool starts over.
has_other_candidates(cands) == Len(cands) > 1

\* Variant of unmutated: the accepted choice moves to the end, as in pick_lru.
unmutated_moved(choices, idx) == move_to_end(choices, idx)

\* pick_even and pick_weighted take their choices by shared reference.
unmutated(choices, idx) == choices

weighted_accept(cat, idx) ==
    CASE cat.model = "even" -> unmutated(cat.choices, idx)
      [] cat.model = "weighted" -> unmutated(cat.choices, idx)
      [] cat.model = "inventory" -> inventory_accept(cat.choices, idx)
      [] cat.model = "lottery" -> lottery_accept(cat.choices, idx)

\* Variant of chosen_name: the name of the first choice.
chosen_name_first(cat, idx) ==
    IF cat.model = "even" THEN cat.choices[1] ELSE cat.choices[1].name

\* choices[index].clone() / choices[index].name.clone()
chosen_name(cat, idx) ==
    IF cat.model = "even" THEN cat.choices[idx] ELSE cat.choices[idx].name

\* Variant of category_not_found: another wording.
category_not_found_short(name) == "Category " \o name \o " not found."

\* format!("Category {} not found in config.", category)
category_not_found(name) == "Category " \o name \o " not found in config."

\* Variant of update_category: the choices are written to every category of
\* the same model.
update_category_of_model(cfg, name, choices) ==
    [k \in DOMAIN cfg |->
        IF cfg[k].model = cfg[name].model
        THEN [cfg[k] EXCEPT !.choices = choices]
        ELSE cfg[k]]

\* config.get_mut(category): the pick writes to the choices of the named
\* category, and to nothing else of the mapping.
update_category(cfg, name, choices) == [cfg EXCEPT ![name].choices = choices]

\* Variant of lru_scan_next: the scan starts again one position late.
lru_scan_next_late(idx, choices) ==
    IF idx < Len(choices) THEN idx + 1 ELSE 2

\* for (index, choice) in choices.iter().enumerate(): the position after
\* idx, and the front of the list again when pick_lru calls itself.
lru_scan_next(idx, choices) ==
    IF idx < Len(choices) THEN idx + 1 ELSE 1

(***************************************************************************)
(* Init: a mapping holding the category to pick from and one other.        *)
(***************************************************************************)
Init ==
    /\ config \in { [things |-> c, other |-> OtherCategory] : c \in ConfigCategory }
    /\ config0 = config
    /\ pc = "idle"
    /\ category = ""
    /\ candidates = <<>>
    /\ index = 0
    /\ choice = ""
    /\ ui = <<>>
    /\ result = None
    /\ prompts = 0
    /\ infos = 0

\* A caller picks again only from a mapping within the bounds of the model
\* (lottery tickets grow with every pick).
WithinBounds(cfg) ==
    \A k \in DOMAIN cfg :
        cfg[k].model = "lottery" =>
            \A i \in 1..Len(cfg[k].choices) : cfg[k].choices[i].tickets <= MaxTickets

(***************************************************************************)
(* Engine::pick: the lookup, and up to the first draw of the model.        *)
(***************************************************************************)
Pick(name) ==
    /\ pc \in {"idle", "returned"}
    /\ WithinBounds(config)
    /\ category' = name
    /\ config0' = config
    /\ ui' = <<>>
    /\ prompts' = 0
    /\ infos' = 0
    /\ choice' = ""
    /\ UNCHANGED config
    /\ IF name \notin DOMAIN config
       THEN /\ result' = ValueError(category_not_found(name))
            /\ pc' = "returned"
            /\ candidates' = <<>>
            /\ index' = 0
       ELSE LET cat == config[name] IN
            /\ result' = None
            /\ pc' = "draw"
            /\ candidates' = CASE cat.model \in WeightedModels -> initialize_candidates(cat)
                               [] cat.model = "gaussian" -> cat.choices
                               [] cat.model = "lru" -> <<>>
            /\ index' = IF cat.model = "lru" THEN 1 ELSE 0

(***************************************************************************)
(* pick_weighted_common, shared by even, inventory, lottery and weighted.  *)
(***************************************************************************)
\* One draw, and the table if the UI asks for it.
WeightedDraw ==
    /\ pc = "draw"
    /\ config[category].model \in WeightedModels
    /\ ~choose_weighted_fails(candidates)
    /\ prompts < MaxPrompts
    /\ \E r \in 0..(SumWeights(candidates) - 1), show \in BOOLEAN :
          LET c == candidates[choose_weighted(candidates, r)] IN
          /\ index' = c.index
          /\ choice' = c.name
          /\ ui' = show_table(show, display_weighted_chance_table(c.index, candidates))
    /\ pc' = "consent"
    /\ UNCHANGED <<config, config0, category, candidates, result, prompts, infos>>

\* choose_weighted(..).unwrap() on an Err.
WeightedDrawPanic ==
    /\ pc = "draw"
    /\ config[category].model \in WeightedModels
    /\ choose_weighted_fails(candidates)
    /\ pc' = "panicked"
    /\ UNCHANGED <<config, config0, category, candidates, index, choice, ui,
                   result, prompts, infos>>

\* Variant of weighted_consent: the choices are also updated when the pool
\* is reset.
weighted_consent_updates_at_reset(cat, cands, idx, name, answer) ==
    IF answer
    THEN [pc |-> "returned", candidates |-> cands,
          calls |-> <<get_consent(name, TRUE)>>,
          result |-> Ok(chosen_name(cat, idx)),
          choices |-> weighted_accept(cat, idx)]
    ELSE IF has_other_candidates(cands)
    THEN [pc |-> "draw",
          candidates |-> RemoveAt(cands, position_by_name(cands, name)),
          calls |-> <<get_consent(name, FALSE)>>,
          result |-> None,
          choices |-> cat.choices]
    ELSE [pc |-> "draw", candidates |-> initialize_candidates(cat),
          calls |-> <<get_consent(name, FALSE), express_disapproval>>,
          result |-> None,
          choices |-> weighted_accept(cat, idx)]

\* What follows the answer to the prompt for candidate (idx, name) drawn from
\* the pool cands of the category cat: where the loop goes, the pool, the UI
\* calls made, the value returned and the choices of the category.
weighted_consent(cat, cands, idx, name, answer) ==
    IF answer
    THEN [pc |-> "returned", candidates |-> cands,
          calls |-> <<get_consent(name, TRUE)>>,
          result |-> Ok(chosen_name(cat, idx)),
          choices |-> weighted_accept(cat, idx)]
    ELSE IF has_other_candidates(cands)
    THEN [pc |-> "draw",
          candidates |-> RemoveAt(cands, position_by_name(cands, name)),
          calls |-> <<get_consent(name, FALSE)>>,
          result |-> None,
          choices |-> cat.choices]
    ELSE [pc |-> "draw", candidates |-> initialize_candidates(cat),
          calls |-> <<get_consent(name, FALSE), express_disapproval>>,
          result |-> None,
          choices |-> cat.choices]

\* The prompt, and what follows the answer.
WeightedConsent ==
    /\ pc = "consent"
    /\ config[category].model \in WeightedModels
    /\ prompts' = prompts + 1
    /\ \E answer \in BOOLEAN :
          LET o == weighted_consent(config[category], candidates, index, choice, answer) IN
          /\ ui' = ui \o o.calls
          /\ infos' = infos + (Len(o.calls) - 1)
          /\ candidates' = o.candidates
          /\ config' = update_category(config, category, o.choices)
          /\ result' = o.result
          /\ pc' = o.pc
    /\ UNCHANGED <<config0, category, index, choice>>

(***************************************************************************)
(* pick_gaussian.                                                          *)
(***************************************************************************)
GaussianDraw ==
    /\ pc = "draw"
    /\ config[category].model = "gaussian"
    /\ prompts < MaxPrompts
    /\ \E i \in gaussian_index(Len(candidates)), show \in BOOLEAN :
          /\ i <= Len(candidates)
          /\ index' = i
          /\ choice' = candidates[i]
          /\ ui' = show_table(show, display_gaussian_chance_table(i, candidates))
    /\ pc' = "consent"
    /\ UNCHANGED <<config, config0, category, candidates, result, prompts, infos>>

\* candidates.get(index) is None: the loop draws again.
GaussianRedraw ==
    /\ pc = "draw"
    /\ config[category].model = "gaussian"
    /\ \E i \in gaussian_index(Len(candidates)) :
          /\ i > Len(candidates)
          /\ index' = i
    /\ ui' = skipped_iteration
    /\ UNCHANGED <<config, config0, pc, category, candidates, choice, result,
                   prompts, infos>>

GaussianConsent ==
    /\ pc = "consent"
    /\ config[category].model = "gaussian"
    /\ prompts' = prompts + 1
    /\ \E answer \in BOOLEAN :
          IF answer
          THEN LET idx == accepted_index(config[category].choices, index, choice) IN
               /\ ui' = Append(ui, get_consent(choice, TRUE))
               /\ index' = idx
               /\ config' = update_category(config, category,
                                gaussian_accept(config[category].choices, idx))
               /\ result' = Ok(config[category].choices[idx])
               /\ pc' = "returned"
               /\ UNCHANGED <<candidates, infos>>
          ELSE IF has_other_candidates(candidates)
          THEN /\ ui' = Append(ui, get_consent(choice, FALSE))
               /\ index' = position(candidates, choice)
               /\ candidates' = RemoveAt(candidates, position(candidates, choice))
               /\ pc' = "draw"
               /\ UNCHANGED <<config, result, infos>>
          ELSE /\ ui' = ui \o <<get_consent(choice, FALSE), express_disapproval>>
               /\ infos' = infos + 1
               /\ candidates' = config[category].choices
               /\ pc' = "draw"
               /\ UNCHANGED <<config, result, index>>
    /\ UNCHANGED <<config0, category, choice>>

(***************************************************************************)
(* pick_lru: index is the position of the scan.                            *)
(***************************************************************************)
LruOffer ==
    /\ pc = "draw"
    /\ config[category].model = "lru"
    /\ index <= Len(config[category].choices)
    /\ prompts < MaxPrompts
    /\ choice' = config[category].choices[index]
    /\ \E show \in BOOLEAN :
          ui' = show_table(show, display_lru_table(index, config[category].choices))
    /\ pc' = "consent"
    /\ UNCHANGED <<config, config0, category, candidates, index, result,
                   prompts, infos>>

LruConsent ==
    /\ pc = "consent"
    /\ config[category].model = "lru"
    /\ prompts' = prompts + 1
    /\ \E answer \in BOOLEAN :
          IF answer
          THEN /\ ui' = Append(ui, get_consent(choice, TRUE))
               /\ config' = update_category(config, category,
                                lru_accept(config[category].choices, index))
               /\ result' = Ok(config[category].choices[index])
               /\ pc' = "returned"
               /\ UNCHANGED <<index, infos>>
          ELSE IF index < Len(config[category].choices)
          THEN /\ ui' = Append(ui, get_consent(choice, FALSE))
               /\ index' = lru_scan_next(index, config[category].choices)
               /\ pc' = "draw"
               /\ UNCHANGED <<config, result, infos>>
          ELSE \* the scan is over: disapproval, and pick_lru calls itself
               /\ ui' = ui \o <<get_consent(choice, FALSE), express_disapproval>>
               /\ infos' = infos + 1
               /\ index' = lru_scan_next(index, config[category].choices)
               /\ pc' = "draw"
               /\ UNCHANGED <<config, result>>
    /\ UNCHANGED <<config0, category, candidates, choice>>

\* On an empty list the scan has no iteration: disapproval, and again.
LruEmptyScan ==
    /\ pc = "draw"
    /\ config[category].model = "lru"
    /\ config[category].choices = <<>>
    /\ infos < MaxInfos
    /\ ui' = <<express_disapproval>>
    /\ infos' = infos + 1
    /\ UNCHANGED <<config, config0, pc, category, candidates, index, choice,
                   result, prompts>>

Next ==
    \/ \E name \in Requests : Pick(name)
    \/ WeightedDraw
    \/ WeightedDrawPanic
    \/ WeightedConsent
    \/ GaussianDraw
    \/ GaussianRedraw
    \/ GaussianConsent
    \/ LruOffer
    \/ LruConsent
    \/ LruEmptyScan

Spec == Init /\ [][Next]_vars

(***************************************************************************)
(* The picks of the inventory and lottery categories alone, with the       *)
(* progress of the engine.  The engine is a sequential program: a loop     *)
(* that is at its draw makes the draw (choose_weighted returns) and goes   *)
(* on to the table and the prompt.  Nothing is assumed of the caller nor   *)
(* of the answers of the user.                                             *)
(***************************************************************************)
TicketInit ==
    /\ Init
    /\ config.things.model \in {"inventory", "lottery"}
    /\ Len(config.things.choices) < MaxLen

TicketNext ==
    \/ \E name \in Requests : Pick(name)
    \/ WeightedDraw
    \/ WeightedDrawPanic
    \/ WeightedConsent

TicketFairSpec == TicketInit /\ [][TicketNext]_vars /\ WF_vars(WeightedDraw)

(***************************************************************************)
(* Vocabulary of the properties below.                                     *)
(***************************************************************************)
Model == config0[category].model
Choices0 == config0[category].choices     \* the choices when pick was called
Choices1 == config[category].choices      \* the choices now
InPick == pc \in {"draw", "consent", "returned", "panicked"} /\ category \in DOMAIN config0
Accepted == InPick /\ pc = "returned" /\ result.kind = "Ok"

\* a is b with the element at position i taken out and put at the end,
\* stated position by position.
IsMovedToEnd(a, b, i) ==
    /\ Len(a) = Len(b)
    /\ i \in 1..Len(b)
    /\ \A j \in 1..Len(b) :
          a[j] = IF j < i THEN b[j] ELSE IF j < Len(b) THEN b[j + 1] ELSE b[i]

UiCalls(name) == {k \in 1..Len(ui) : ui[k].call = name}

----------------------------------------------------------------------------
\* C1: a pick of a category name with no entry in the mapping returns the
\* error "Category {name} not found in config.", makes no UI call and leaves
\* every category of the mapping unchanged.
C1_CategoryNotFound ==
    (pc = "returned" /\ category \notin DOMAIN config0) =>
        /\ category = "does not exist"
        /\ result = [kind |-> "Err",
                     message |-> "Category does not exist not found in config."]
        /\ ui = <<>> /\ prompts = 0 /\ infos = 0
        /\ config = config0

C1_Witness ==
    /\ pc = "returned"
    /\ category = "does not exist"
    /\ result.kind = "Err"
    /\ config.things.choices # <<>>

\* C2: inventory: after an accepted pick exactly the winner's tickets is one
\* less and every other entry is unchanged, whatever rejections and pool
\* resets came before; the winner is counted by its position in the
\* persisted list, also when zero-ticket entries precede it.
C2_InventoryDecrement ==
    (Accepted /\ Model = "inventory") =>
        /\ Len(Choices1) = Len(Choices0)
        /\ index \in 1..Len(Choices0)
        /\ Choices0[index].name = result.value
        /\ Choices0[index].name = choice
        /\ Choices0[index].tickets >= 1
        /\ Choices1[index].name = Choices0[index].name
        /\ Choices1[index].tickets + 1 = Choices0[index].tickets
        /\ \A i \in 1..Len(Choices0) : i # index => Choices1[i] = Choices0[i]

\* an acceptance after a pool reset, of an entry that follows a zero-ticket one
C2_Witness ==
    /\ Accepted /\ Model = "inventory"
    /\ infos >= 1
    /\ prompts >= 3
    /\ \E j \in 1..(index - 1) : Choices0[j].tickets = 0

\* C3: lottery: after an accepted pick the winner has 0 tickets whatever its
\* weight, every other entry has gained exactly its own weight, the entries
\* with 0 tickets before the pick included, and names and weights are
\* unchanged.
C3_LotteryTickets ==
    (Accepted /\ Model = "lottery") =>
        /\ Len(Choices1) = Len(Choices0)
        /\ index \in 1..Len(Choices0)
        /\ Choices0[index].name = result.value
        /\ \A i \in 1..Len(Choices0) :
              /\ Choices1[i].name = Choices0[i].name
              /\ Choices1[i].weight = Choices0[i].weight
              /\ Choices1[i].tickets =
                    IF i = index THEN 0
                    ELSE Choices0[i].tickets + Choices0[i].weight

\* a winner of weight 2 and 2 tickets, next to an entry that had no ticket
\* and gains its weight of one
C3_Witness ==
    /\ Accepted /\ Model = "lottery"
    /\ Choices0[index].weight = 2
    /\ Choices0[index].tickets = 2
    /\ \E i \in 1..Len(Choices0) :
          /\ i # index
          /\ Choices0[i].tickets = 0
          /\ Choices0[i].weight = 1
          /\ Choices1[i].tickets = 1

\* C4: lru: after an accepted pick at scan position i the list is the
\* original with the element at i taken out and appended, the others in
\* their order, and the returned name is that element.
C4_LruMoveToEnd ==
    (Accepted /\ Model = "lru") =>
        /\ index \in 1..Len(Choices0)
        /\ index = ((prompts - 1) % Len(Choices0)) + 1
        /\ result.value = Choices0[index]
        /\ IsMovedToEnd(Choices1, Choices0, index)

\* the middle one of three distinct names, accepted after the first was
\* rejected
C4_Witness ==
    /\ Accepted /\ Model = "lru"
    /\ Choices0 = <<"this", "that", "the other">>
    /\ index = 2
    /\ prompts = 2
    /\ Choices1 = <<"this", "the other", "that">>

\* C5: gaussian: after an accepted pick the list is the original with the
\* accepted name moved to the end, the others in their order, whatever
\* rejections, removals and resets of the working copy came before: the
\* index of the move is a position of the name in the persisted list.
C5_GaussianMoveToEnd ==
    (Accepted /\ Model = "gaussian") =>
        /\ result.value = choice
        /\ index \in 1..Len(Choices0)
        /\ Choices0[index] = choice
        /\ IsMovedToEnd(Choices1, Choices0, index)

\* accepted from a working copy so short that the position of the name in
\* the persisted list is not a position of the working copy
C5_Witness ==
    /\ Accepted /\ Model = "gaussian"
    /\ Len(candidates) < index
    /\ Cardinality({Choices0[i] : i \in 1..Len(Choices0)}) = Len(Choices0)
    /\ Len(Choices0) = 3

\* C6: even and weighted picks never change the category: during the pick
\* and after it returned, the choices are those the pick was called with.
C6_EvenWeightedUnchanged ==
    (InPick /\ Model \in {"even", "weighted"}) => config = config0

\* returned after every candidate was rejected once and the pool started over
C6_Witness ==
    /\ Accepted /\ Model = "weighted"
    /\ infos >= 1
    /\ Len(Choices0) >= 2
    /\ Choices0[index].weight = 2

\* C7: inventory and lottery: an entry with 0 tickets when the pick starts is
\* never in the pool, so never in a table, never offered and never
\* returned, also after the pool started over.
C7_ZeroTicketsNeverDrawn ==
    (InPick /\ Model \in {"inventory", "lottery"}) =>
        /\ \A k \in 1..Len(candidates) :
              /\ candidates[k].index \in 1..Len(Choices0)
              /\ Choices0[candidates[k].index].tickets > 0
              /\ candidates[k].weight = Choices0[candidates[k].index].tickets
              /\ candidates[k].name = Choices0[candidates[k].index].name
        /\ \A k \in UiCalls("display_table") :
              /\ pc = "consent" => Len(ui[k].table.rows) = Len(candidates)
              /\ \A r \in 1..Len(ui[k].table.rows) : ui[k].table.rows[r].weight > 0
        /\ (pc = "consent" \/ UiCalls("prompt_choice") # {}) =>
              /\ index \in 1..Len(Choices0)
              /\ Choices0[index].tickets > 0
              /\ Choices0[index].name = choice
              /\ \A k \in UiCalls("prompt_choice") : ui[k].choice = choice
        /\ Accepted => result.value = Choices0[index].name

\* a table and an offer after the pool started over, with a 0-ticket entry
C7_Witness ==
    /\ pc = "consent" /\ Model = "lottery"
    /\ infos >= 1
    /\ UiCalls("display_table") # {}
    /\ \E i \in 1..Len(Choices0) : Choices0[i].tickets = 0

\* C8: every model: pick returns a name only in an iteration whose
\* prompt_choice answered true, and the name is the one given to that call.
C8_ReturnsAcceptedName ==
    (pc = "returned" /\ result.kind = "Ok") =>
        /\ prompts >= 1
        /\ ui # <<>>
        /\ ui[Len(ui)] = [call |-> "prompt_choice", choice |-> result.value,
                          returned |-> TRUE]
        /\ UiCalls("prompt_choice") = {Len(ui)}

\* the third name of three, accepted at the second prompt
C8_Witness ==
    /\ Accepted /\ Model = "even"
    /\ prompts = 2
    /\ result.value = "the other"
    /\ Choices0 = <<"this", "that", "the other">>

\* C9: the weighted consent loop: the rejection of the last candidate of the
\* pool is followed, before the next prompt, by exactly one info call with
\* the disapproval message, and the pool is again the whole of
\* initialize_candidates; a rejection while the pool holds more than one
\* candidate is followed by no info call.
C9_OneDisapprovalPerRound ==
    [][ (pc = "consent" /\ Model \in WeightedModels /\ pc' = "draw") =>
           IF Len(candidates) = 1
           THEN /\ infos' = infos + 1
                /\ prompts' = prompts + 1
                /\ Len(ui') >= 2
                /\ ui'[Len(ui') - 1] = [call |-> "prompt_choice", choice |-> choice,
                                        returned |-> FALSE]
                /\ ui'[Len(ui')] = [call |-> "info", message |-> "U+1F928"]
                /\ Cardinality({k \in 1..Len(ui') : ui'[k].call = "info"}) = 1
                /\ candidates' = initialize_candidates(config0[category])
                /\ Len(candidates') >= 1
           ELSE /\ infos' = infos
                /\ {k \in 1..Len(ui') : ui'[k].call = "info"} = {}
                /\ Len(candidates') = Len(candidates) - 1
      ]_vars

\* three candidates rejected one after the other, and the pool is whole again
C9_Witness ==
    /\ pc = "draw" /\ InPick /\ Model = "weighted"
    /\ prompts = 3 /\ infos = 1
    /\ Len(candidates) = 3
    /\ ui[Len(ui)].call = "info"

\* C10: for a category of the mapping, of any model and with any well-formed
\* values, pick never fails or aborts: the missing category is its only
\* failure.
C10_PickNeverFails ==
    /\ pc # "panicked"
    /\ (pc = "returned" /\ result.kind = "Err") => category \notin DOMAIN config0

\* C11: at every draw of the weighted consent loop (even, weighted,
\* inventory, lottery) the pool holds no entry of weight zero and its total
\* weight is greater than zero, for the first pool and for every pool after
\* rejections and resets.
C11_PoolWeightsPositive ==
    (pc = "draw" /\ InPick /\ Model \in WeightedModels) =>
        /\ \A k \in 1..Len(candidates) : candidates[k].weight > 0
        /\ SumWeights(candidates) > 0

\* C12: a weighted category: once the user has said no to an offer the pick
\* goes on (the pool shrinks, or disapproval is expressed and the pool is
\* whole again); it does not crash.
C12_WeightedNoToAll ==
    (InPick /\ Model = "weighted" /\ prompts >= 1) => pc # "panicked"

\* The weighted category with the names of an even one and every weight 1.
AsWeighted(names) ==
    [model |-> "weighted",
     choices |-> [i \in 1..Len(names) |-> [name |-> names[i], weight |-> 1]]]

\* C13: Even(choices) is Weighted(choices) with every weight 1.  The draw of
\* the consent loop reads the pool only, so the two runs, given the same
\* draws and answers, stay together if they start from the same pool and if,
\* from every state of the even pick and for every answer, the consent step
\* of the weighted category gives the same pool, the same prompt and
\* disapproval calls and the same returned name, and neither changes its
\* choices.
C13_EvenIsWeightedOnes ==
    (InPick /\ Model = "even") =>
        LET even == config0[category]
            weighted == AsWeighted(Choices0)
        IN  /\ config[category] = even
            /\ initialize_candidates(weighted) = initialize_candidates(even)
            /\ Len(initialize_candidates(even)) = Len(Choices0)
            /\ choose_weighted_fails(initialize_candidates(weighted))
                  = (Choices0 = <<>>)
            /\ pc = "consent" =>
                 \A answer \in BOOLEAN :
                    LET e == weighted_consent(even, candidates, index, choice, answer)
                        w == weighted_consent(weighted, candidates, index, choice, answer)
                    IN  /\ e.pc = w.pc
                        /\ e.candidates = w.candidates
                        /\ e.calls = w.calls
                        /\ e.result = w.result
                        /\ e.choices = even.choices
                        /\ w.choices = weighted.choices
            /\ pc = "returned" =>
                 result = Ok(AsWeighted(Choices0).choices[index].name)

\* an even pick accepted after a whole round of rejections and a reset
C13_Witness ==
    /\ Accepted /\ Model = "even"
    /\ Len(Choices0) = 3
    /\ infos = 1
    /\ prompts = 4
    /\ result.value = "that"

\* C14: in every variant, an iteration of the consent loop that offers a
\* candidate queries call_display_table exactly once, as its first UI call
\* and so before its prompt_choice; display_table is called in the iteration
\* if and only if the query returned true, then exactly once and between
\* the query and the prompt.  (ui is the log of the current iteration.)
C14_TableQueryPerIteration ==
    (InPick /\ (pc = "consent" \/ UiCalls("prompt_choice") # {}
                  \/ UiCalls("call_display_table") # {}
                  \/ UiCalls("display_table") # {})) =>
        /\ Len(ui) >= 1
        /\ UiCalls("call_display_table") = {1}
        /\ IF ui[1].returned
           THEN /\ UiCalls("display_table") = {2}
                /\ UiCalls("prompt_choice") = IF pc = "consent" THEN {} ELSE {3}
           ELSE /\ UiCalls("display_table") = {}
                /\ UiCalls("prompt_choice") = IF pc = "consent" THEN {} ELSE {2}
        /\ UiCalls("info") \subseteq {Len(ui)}
        /\ UiCalls("info") # {} => UiCalls("prompt_choice") = {Len(ui) - 1}

\* a gaussian iteration with the table shown and the offer rejected
C14_Witness ==
    /\ InPick /\ Model = "gaussian" /\ pc = "draw"
    /\ Len(ui) = 3
    /\ ui[1] = [call |-> "call_display_table", returned |-> TRUE]
    /\ ui[2].call = "display_table"
    /\ ui[3].call = "prompt_choice" /\ ~ui[3].returned
    /\ prompts = 2

\* C15: a pick writes to the category it is called with only: every other
\* category of the mapping, and the set of category names, are at every
\* point of the pick, and after it, successful or failed, what they were
\* when pick was called.
C15_OtherCategoriesUnchanged ==
    /\ DOMAIN config = DOMAIN config0
    /\ \A k \in DOMAIN config0 : k # category => config[k] = config0[k]

\* a successful pick that has changed the category it was called with, of
\* the same model as the other category
C15_Witness ==
    /\ Accepted /\ Model = "lottery"
    /\ config.things # config0.things
    /\ config.other = config0.other
    /\ prompts >= 2

\* The sum of f[1] .. f[n].
RECURSIVE SumTo(_, _)
SumTo(f, n) == IF n = 0 THEN 0 ELSE f[n] + SumTo(f, n - 1)

\* The table displayed in the current iteration.
TableShown == Len(ui) >= 2 /\ ui[2].call = "display_table"
Shown == ui[2].table

\* C16: every table of the weighted consent loop (even, weighted, inventory,
\* lottery): the rows are exactly the entries of the current pool, shrunken
\* or not; the total of the footer is the sum of the weights of the rows;
\* the chance of a row is its weight over that total, times 100, so the
\* chances of the rows sum to 100; the chance of the chosen row is that of
\* the drawn candidate.  (A chance is kept as the fraction num / den.)
C16_TableTotals ==
    (InPick /\ Model \in WeightedModels /\ pc = "consent" /\ TableShown) =>
        LET rows == Shown.rows
            total == Shown.footer[2]
            drawn == candidates[CHOOSE k \in 1..Len(candidates) :
                                    candidates[k].index = index]
        IN  /\ Len(rows) = Len(candidates)
            /\ \A i \in 1..Len(rows) :
                  Cardinality({j \in 1..Len(rows) :
                                  /\ rows[j].name = rows[i].name
                                  /\ rows[j].weight = rows[i].weight})
                  = Cardinality({k \in 1..Len(candidates) :
                                  /\ candidates[k].name = rows[i].name
                                  /\ candidates[k].weight = rows[i].weight})
            /\ total = SumTo([i \in 1..Len(rows) |-> rows[i].weight], Len(rows))
            /\ total > 0
            /\ Shown.footer = <<"Total", total, 100>>
            /\ \A i \in 1..Len(rows) :
                  /\ rows[i].chance.den = total
                  /\ rows[i].chance.num = rows[i].weight * 100
            /\ SumTo([i \in 1..Len(rows) |-> rows[i].chance.num], Len(rows))
                  = 100 * total
            /\ \E i \in 1..Len(rows) : rows[i].chosen
            /\ \A i \in 1..Len(rows) :
                  rows[i].chosen =>
                     /\ rows[i].name = choice
                     /\ rows[i].chance = [num |-> drawn.weight * 100, den |-> total]

\* the table of a pool shrunken by one rejection, with unequal weights
C16_Witness ==
    /\ InPick /\ Model = "inventory" /\ pc = "consent" /\ TableShown
    /\ prompts = 1
    /\ Len(Choices0) = 3
    /\ Len(Shown.rows) = 2
    /\ Shown.footer[2] = 3
    /\ Shown.rows[2].chosen
    /\ Shown.rows[2].chance = [num |-> 200, den |-> 3]

\* A rejection in the weighted loop while the pool has more than one entry.
WeightedRejection ==
    /\ pc = "consent" /\ Model \in WeightedModels
    /\ pc' = "draw"
    /\ Len(candidates) > 1

\* a is b without its entry at position p, stated position by position.
IsWithout(a, b, p) ==
    /\ p \in 1..Len(b)
    /\ Len(a) = Len(b) - 1
    /\ \A j \in 1..Len(a) : a[j] = IF j < p THEN b[j] ELSE b[j + 1]

\* C18: the weighted loop, a candidate rejected while the pool has more than
\* one entry: the drawn entry itself, the one with the drawn original index,
\* leaves the pool and every other entry stays, so that the rejected entry
\* cannot be drawn again before the next reset; for every choices list,
\* those with two entries of the same name included.
C18_RemovesDrawnEntry ==
    [][ WeightedRejection =>
           /\ \E p \in 1..Len(candidates) :
                 /\ candidates[p].index = index
                 /\ IsWithout(candidates', candidates, p)
           /\ \A k \in 1..Len(candidates') : candidates'[k].index # index
      ]_vars

\* C18, amended: the entry that leaves the pool is the first entry of the
\* pool that carries the drawn name, and every other entry stays; it is the
\* drawn entry itself when no earlier entry of the pool has its name, and
\* then the rejected entry cannot be drawn again before the next reset.
C18_RemovesFirstOfName ==
    [][ WeightedRejection =>
           \E p \in 1..Len(candidates) :
              /\ candidates[p].name = choice
              /\ \A j \in 1..(p - 1) : candidates[j].name # choice
              /\ IsWithout(candidates', candidates, p)
              /\ candidates[p].index <= index
              /\ (\A j \in 1..Len(candidates) :
                     candidates[j].name = choice => candidates[j].index >= index)
                 => /\ candidates[p].index = index
                    /\ \A k \in 1..Len(candidates') : candidates'[k].index # index
      ]_vars

\* after the rejection of the second of two entries of the same name, the
\* rejected entry is still in the pool and the first one is not
C18_Witness ==
    /\ InPick /\ Model = "weighted" /\ pc = "draw"
    /\ prompts = 1 /\ infos = 0
    /\ index = 2
    /\ Len(Choices0) = 3
    /\ Choices0[1].name = Choices0[2].name
    /\ Len(candidates) = 2
    /\ candidates[1].index = 2

\* C19: lru offers the candidates in the order of the persisted list, from
\* the front: the k-th prompt of a pick, counted from 0, is for the element
\* at position k mod n of the list of length n, which is unchanged until an
\* acceptance; each full scan of n rejections is followed by exactly one
\* disapproval and the scan starts again at the front of the same list.
\* (Positions are counted from 1 in the model; prompts is the number of
\* prompts answered and infos the number of disapprovals so far.)
C19_LruScanOrder ==
    (InPick /\ Model = "lru" /\ Choices0 # <<>>) =>
        LET n == Len(Choices0) IN
        /\ pc \in {"draw", "consent"} =>
              /\ Choices1 = Choices0
              /\ index = (prompts % n) + 1
              /\ infos = prompts \div n
        /\ pc = "consent" => choice = Choices0[(prompts % n) + 1]
        /\ UiCalls("prompt_choice") # {} =>
              \A k \in UiCalls("prompt_choice") :
                 /\ ui[k].choice = Choices0[((prompts - 1) % n) + 1]
                 /\ UiCalls("info") # {} <=> (~ui[k].returned /\ prompts % n = 0)
        /\ pc = "returned" =>
              /\ index = ((prompts - 1) % n) + 1
              /\ infos = (prompts - 1) \div n
              /\ result = Ok(Choices0[index])

\* the first element offered again after a full scan of three rejections
C19_Witness ==
    /\ InPick /\ Model = "lru" /\ pc = "consent"
    /\ Choices0 = <<"this", "that", "the other">>
    /\ prompts = 3 /\ infos = 1
    /\ index = 1 /\ choice = "this"

\* C20: gaussian, the offered name rejected: while the working copy has more
\* than one entry, exactly the offered entry (the one at the drawn position)
\* leaves the working copy and no disapproval is expressed; when it has one
\* entry, one disapproval is expressed and the working copy is again the
\* whole persisted list.
C20_GaussianRejection ==
    [][ (pc = "consent" /\ Model = "gaussian" /\ pc' = "draw") =>
           IF Len(candidates) > 1
           THEN /\ IsWithout(candidates', candidates, index)
                /\ infos' = infos
                /\ {k \in 1..Len(ui') : ui'[k].call = "info"} = {}
           ELSE /\ infos' = infos + 1
                /\ Cardinality({k \in 1..Len(ui') : ui'[k].call = "info"}) = 1
                /\ candidates' = Choices1
      ]_vars

\* C21: gaussian, the drawn index out of range of the working copy: the
\* iteration only draws again.  It makes no call_display_table,
\* display_table, prompt_choice or info call, leaves the working copy and
\* the persisted list as they are, and counts no rejection and no
\* disapproval.
C21_GaussianPureRedraw ==
    [][ (InPick /\ Model = "gaussian" /\ pc = "draw" /\ pc' = "draw"
           /\ index' > Len(candidates)) =>
           /\ ui' = <<>>
           /\ candidates' = candidates
           /\ config' = config
           /\ prompts' = prompts
           /\ infos' = infos
           /\ result' = result
           /\ choice' = choice
      ]_vars

\* an index out of range drawn after a rejection has shortened the working
\* copy
C21_Witness ==
    /\ InPick /\ Model = "gaussian" /\ pc = "draw"
    /\ prompts = 1 /\ infos = 0
    /\ Len(Choices0) = 3
    /\ Len(candidates) = 2
    /\ index = 3
    /\ ui = <<>>

\* C22: every variant: the persisted state of the category is written at
\* acceptance only.  In every state of a pick before the accepting answer
\* (draws, tables, rejections, disapprovals, resets of the pool or of the
\* working copy) the choices, with their tickets and weights, are those of
\* the start of the pick.
C22_MutatedOnlyAtAcceptance ==
    (InPick /\ pc # "returned") => config[category] = config0[category]

\* a lottery pick after a whole round of rejections and the reset of its
\* pool, the choices still as at the start
C22_Witness ==
    /\ InPick /\ Model = "lottery" /\ pc = "consent"
    /\ prompts = 2 /\ infos = 1
    /\ Len(candidates) = 2
    /\ Choices1 = Choices0

\* The rows flagged chosen of the table displayed in the current iteration.
ChosenRows == {i \in 1..Len(Shown.rows) : Shown.rows[i].chosen}

\* C23: every table of the weighted consent loop: the rows are the entries
\* of the current pool in ascending order of weight, and exactly one row is
\* flagged chosen, the row of the candidate drawn in that iteration, which
\* is the one the prompt_choice call of the iteration offers.
C23_TableSortedOneChosen ==
    (InPick /\ Model \in WeightedModels /\ TableShown) =>
        LET rows == Shown.rows IN
        /\ \A i, j \in 1..Len(rows) : i < j => rows[i].weight <= rows[j].weight
        /\ Cardinality(ChosenRows) = 1
        /\ \A i \in ChosenRows : rows[i].name = choice
        /\ pc = "consent" =>
              /\ Len(rows) = Len(candidates)
              /\ \A k \in 1..Len(candidates) :
                    \E i \in 1..Len(rows) :
                       /\ rows[i].name = candidates[k].name
                       /\ rows[i].weight = candidates[k].weight
                       /\ rows[i].chosen = (candidates[k].index = index)
        /\ UiCalls("prompt_choice") # {} =>
              /\ ui[3].call = "prompt_choice"
              /\ \A i \in ChosenRows : rows[i].name = ui[3].choice

\* a pool not in ascending order of weight, the drawn candidate in the first
\* row of the table
C23_Witness ==
    /\ InPick /\ Model = "weighted" /\ pc = "consent" /\ TableShown
    /\ Len(candidates) = 3
    /\ candidates[1].weight = 2 /\ candidates[2].weight = 1
    /\ index = 2
    /\ ChosenRows = {1}
    /\ Shown.rows[1].weight = 1

\* C24: the lru table at the scan position i: its rows are exactly the
\* entries from position i to the end of the list, in reverse list order;
\* exactly one row is flagged chosen, the last one, which is the entry at
\* position i; the entries before position i, rejected in this scan, are not
\* in it; the footer is empty.  (Positions are counted from 1.)
C24_LruTable ==
    (InPick /\ Model = "lru" /\ TableShown) =>
        LET rows == Shown.rows
            n == Len(Choices0)
            i == IF pc = "consent" THEN index
                 ELSE ((prompts - 1) % n) + 1
        IN  /\ i \in 1..n
            /\ Len(rows) = n - i + 1
            /\ \A r \in 1..Len(rows) :
                  /\ rows[r].name = Choices0[n - r + 1]
                  /\ rows[r].chosen = (r = Len(rows))
            /\ rows[Len(rows)].name = Choices0[i]
            /\ rows[Len(rows)].name = choice
            /\ Cardinality({r \in 1..Len(rows) : rows[r].chosen}) = 1
            /\ Shown.header = <<"Name">>
            /\ Shown.footer = <<>>

\* the table at the second position of a list of three
C24_Witness ==
    /\ InPick /\ Model = "lru" /\ pc = "consent" /\ TableShown
    /\ Choices0 = <<"this", "that", "the other">>
    /\ index = 2
    /\ Len(Shown.rows) = 2
    /\ Shown.rows[1] = [name |-> "the other", chosen |-> FALSE]
    /\ Shown.rows[2] = [name |-> "that", chosen |-> TRUE]

\* A lottery or inventory pick of a category with tickets left.
TicketPick ==
    /\ InPick /\ Model \in {"inventory", "lottery"}
    /\ \E i \in 1..Len(Choices0) : Choices0[i].tickets > 0

\* C25: lottery and inventory, some entry with tickets > 0, other entries
\* possibly with none: the loop at a draw, at the start of the pick, after a
\* rejection or after a disapproval and the reset of the pool, always comes
\* to the prompt for another candidate (within the number of prompts of the
\* model), and an accepting answer ends the pick at once.
C25_TicketPickProgress ==
    /\ [](TicketPick =>
            /\ pc # "panicked"
            /\ (UiCalls("prompt_choice") # {}
                  /\ \A k \in UiCalls("prompt_choice") : ui[k].returned)
               => (pc = "returned" /\ result.kind = "Ok"))
    /\ (TicketPick /\ pc = "draw" /\ prompts < MaxPrompts)
          ~> (TicketPick /\ pc = "consent")

\* a lottery pick with an entry without tickets, at the prompt again after
\* the rejection of every candidate and the reset of the pool
C25_Witness ==
    /\ TicketPick /\ Model = "lottery" /\ pc = "consent"
    /\ Choices0[1].tickets = 0
    /\ Choices0[2].tickets = 2
    /\ prompts = 2 /\ infos = 2

\* The category has a choice to offer, as C26 counts it: a list that is not
\* empty and, for inventory and lottery, an entry with tickets > 0.
HasEligibleChoice ==
    /\ InPick
    /\ Choices0 # <<>>
    /\ Model \in {"inventory", "lottery"} =>
          \E i \in 1..Len(Choices0) : Choices0[i].tickets > 0

\* C26: every variant, a category with a choice to offer, the user accepting
\* the first candidate offered: the pick comes to its first prompt without
\* failing, and it returns at the accepting answer with exactly one
\* prompt_choice call made and no info call.
C26_TerminatesOnAcceptance ==
    HasEligibleChoice =>
        /\ prompts = 0 => pc # "panicked"
        /\ (prompts = 1 /\ UiCalls("prompt_choice") # {}
               /\ \A k \in UiCalls("prompt_choice") : ui[k].returned)
           => /\ pc = "returned" /\ result.kind = "Ok"
              /\ infos = 0 /\ UiCalls("info") = {}

\* The tickets of a list of choices, all together.
TotalTickets(choices) ==
    SumTo([i \in 1..Len(choices) |-> choices[i].tickets], Len(choices))

\* C27: inventory: the tickets of every entry are >= 0 in every state, the
\* decrement never going below zero; an accepted pick takes exactly one
\* ticket from the total, from the entry it returns, which had at least one,
\* and gives no ticket to any entry.  A pick starts from the state the pick
\* before it left, so along any sequence of accepted picks an entry that
\* starts with t tickets is returned by at most t of them.
C27_InventoryTicketsNotNegative ==
    /\ \A k \in DOMAIN config :
          config[k].model = "inventory" =>
             \A i \in 1..Len(config[k].choices) : config[k].choices[i].tickets >= 0
    /\ (Accepted /\ Model = "inventory") =>
          /\ TotalTickets(Choices1) = TotalTickets(Choices0) - 1
          /\ Choices0[index].tickets >= 1
          /\ Choices1[index].tickets = Choices0[index].tickets - 1
          /\ result = Ok(Choices0[index].name)
          /\ \A i \in 1..Len(Choices0) :
                /\ Choices1[i].tickets <= Choices0[i].tickets
                /\ Choices1[i].tickets < Choices0[i].tickets => i = index

\* the pick that takes the last ticket of the category
C27_Witness ==
    /\ Accepted /\ Model = "inventory"
    /\ Len(Choices0) = 3
    /\ TotalTickets(Choices0) = 1
    /\ TotalTickets(Choices1) = 0
    /\ index = 3

\* How many times the name occurs in the list.
Occurrences(names, name) == Cardinality({i \in 1..Len(names) : names[i] = name})

\* C28: gaussian and lru: in every state of a pick, whatever the rejections
\* and resets, and after it, the persisted list has the length it had when
\* pick was called and every name occurs in it as many times: no name is
\* lost, repeated or added.  A pick starts from the list the pick before it
\* left, so the same holds of the list after any sequence of picks and the
\* original one.
C28_OnlyPermutes ==
    (InPick /\ Model \in {"gaussian", "lru"}) =>
        /\ config[category].model = Model
        /\ Len(Choices1) = Len(Choices0)
        /\ \A i \in 1..Len(Choices0) :
              Occurrences(Choices1, Choices0[i]) = Occurrences(Choices0, Choices0[i])
        /\ \A i \in 1..Len(Choices1) :
              Occurrences(Choices0, Choices1[i]) = Occurrences(Choices1, Choices1[i])

\* a gaussian pick, of a list with a name twice, that has moved a choice
\* after a reset of the working copy
C28_Witness ==
    /\ Accepted /\ Model = "gaussian"
    /\ Choices0 = <<"this", "that", "this">>
    /\ Choices1 = <<"this", "this", "that">>
    /\ infos = 1

\* The list after k picks of an lru list in each of which the first
\* candidate offered, the one at the front, is accepted.
RECURSIVE AfterFirstAccepted(_, _)
AfterFirstAccepted(names, k) ==
    IF k = 0 THEN names ELSE lru_accept(AfterFirstAccepted(names, k - 1), 1)

\* C29: lru, a list of n names, the first candidate offered accepted in each
\* pick: such a pick returns the name at the front and leaves the list
\* lru_accept gives for the front position; n of them one after the other
\* return the names in the order of the original list, each position once,
\* and leave the list in its original order.
C29_LruRoundRobin ==
    (InPick /\ Model = "lru" /\ Choices0 # <<>>) =>
        LET n == Len(Choices0) IN
        /\ (Accepted /\ prompts = 1) =>
              /\ index = 1
              /\ result = Ok(Choices0[1])
              /\ Choices1 = AfterFirstAccepted(Choices0, 1)
              /\ \A j \in 1..n :
                    Choices1[j] = IF j < n THEN Choices0[j + 1] ELSE Choices0[1]
        /\ \A k \in 0..(n - 1) :
              /\ Len(AfterFirstAccepted(Choices0, k)) = n
              /\ AfterFirstAccepted(Choices0, k)[1] = Choices0[k + 1]
        /\ AfterFirstAccepted(Choices0, n) = Choices0

\* the third of three such picks: the list is the original one turned twice,
\* which only earlier picks give, and comes back to the original order
C29_Witness ==
    /\ Accepted /\ Model = "lru" /\ prompts = 1
    /\ Choices0 = <<"the other", "this", "that">>
    /\ result = [kind |-> "Ok", value |-> "the other"]
    /\ Choices1 = <<"this", "that", "the other">>

\* C30: lottery: no entry wins two picks of the category in a row.  The
\* winner of a pick has 0 tickets when the pick has returned, whatever its
\* weight; the pick of the same category that starts next has not the winner
\* in its pool; and a pick offers, and returns, only entries that had
\* tickets > 0 when it started.
C30_NoConsecutiveWins ==
    /\ []((InPick /\ Model = "lottery") =>
             /\ Accepted => Choices1[index].tickets = 0
             /\ pc \in {"draw", "consent"} =>
                   \A k \in 1..Len(candidates) :
                      Choices0[candidates[k].index].tickets > 0
             /\ pc \in {"consent", "returned"} => Choices0[index].tickets > 0)
    /\ [][ (Accepted /\ Model = "lottery" /\ pc' = "draw" /\ category' = category) =>
              /\ config0'[category].choices[index].tickets = 0
              /\ \A k \in 1..Len(candidates') : candidates'[k].index # index
         ]_vars

\* a winner of weight 2, with 0 tickets after its pick, and another entry
\* with tickets for the next pick
C30_Witness ==
    /\ Accepted /\ Model = "lottery"
    /\ Choices0[index].weight = 2
    /\ Choices0[index].tickets = 2
    /\ Choices1[index].tickets = 0
    /\ WithinBounds(config)
    /\ \E i \in 1..Len(Choices1) : Choices1[i].tickets > 0
    /\ prompts = 2

====
